---- MODULE Spec2Model ----
(***************************************************************************)
(* Model of the activities API of the Mergington High School backend:      *)
(*   src/src/backend/database_old.py       the in-memory Record Store, the  *)
(*                                         Index Layer and the Query        *)
(*                                         Emulator (InMemoryCollection)    *)
(*   src/src/backend/routers/activities.py the Response Cache and the HTTP  *)
(*                                         handlers                         *)
(*                                                                         *)
(* Python values are tagged records [t |-> type, v |-> value]; a dict is a  *)
(* TLA+ function from keys to values, a list a sequence.  A str is a TLA+   *)
(* string; where the code orders strings (<, >) the order is Python's, on   *)
(* the code points given by Chars.                                          *)
(***************************************************************************)
EXTENDS Integers, Sequences, FiniteSets, TLC

VARIABLES
    activities_data,  \* the dict the module global activities_data names
    teachers_data,    \* the dict the module global teachers_data names
    data,             \* activities_collection.data, the dict the handlers query
    _day_index,       \* day -> list of activity names
    _cache,           \* cache key -> cached result
    origin,           \* observer: cache key -> the request whose miss wrote the entry
    last,             \* observer: the last call, its arguments and what it returned
    requests          \* the requests being handled at the same time, each with its
                      \* position in its handler and its local variables

vars == <<activities_data, teachers_data, data, _day_index, _cache, origin, last, requests>>

Range(s) == {s[i] : i \in DOMAIN s}

(***************************************************************************)
(* Python values.                                                          *)
(***************************************************************************)
NoneV == [t |-> "none", v |-> "None"]
S(x) == [t |-> "str", v |-> x]
N(n) == [t |-> "int", v |-> n]
L(s) == [t |-> "list", v |-> s]
D(f) == [t |-> "dict", v |-> f]

EmptyDict == <<>>

\* bool(x) for the values the code tests with "if x" / "if not x"
Truthy(x) ==
    CASE x.t = "none" -> FALSE
      [] x.t = "str" -> x.v # ""
      [] x.t = "int" -> x.v # 0
      [] x.t = "list" -> x.v # <<>>
      [] x.t = "dict" -> DOMAIN x.v # {}

\* a == b
PyEq(a, b) == a.t = b.t /\ a.v = b.v

\* item in lst, for a list value
InList(item, lst) == \E i \in DOMAIN lst : lst[i] = item

(***************************************************************************)
(* Strings: code points, Python's str order, str(int).                     *)
(***************************************************************************)
Chars(s) ==
    CASE s = "06:30" -> <<48, 54, 58, 51, 48>>
      [] s = "07:00" -> <<48, 55, 58, 48, 48>>
      [] s = "07:45" -> <<48, 55, 58, 52, 53>>
      [] s = "08:00" -> <<48, 56, 58, 48, 48>>
      [] s = "15:15" -> <<49, 53, 58, 49, 53>>
      [] s = "15:30" -> <<49, 53, 58, 51, 48>>
      [] s = "16:45" -> <<49, 54, 58, 52, 53>>
      [] s = "17:00" -> <<49, 55, 58, 48, 48>>
      [] s = "17:30" -> <<49, 55, 58, 51, 48>>
      [] s = "" -> <<>>
      [] s = "07:00&end_time=08:00" -> <<48, 55, 58, 48, 48, 38, 101, 110, 100, 95, 116, 105, 109, 101, 61, 48, 56, 58, 48, 48>>
      [] s = "08:00&end_time=" -> <<48, 56, 58, 48, 48, 38, 101, 110, 100, 95, 116, 105, 109, 101, 61>>
      [] s = "7:00" -> <<55, 58, 48, 48>>
      [] s = "9:00" -> <<57, 58, 48, 48>>
      [] s = "16:00" -> <<49, 54, 58, 48, 48>>
      [] s = "Monday" -> <<77, 111, 110, 100, 97, 121>>
      [] s = "Tuesday" -> <<84, 117, 101, 115, 100, 97, 121>>
      [] s = "Wednesday" -> <<87, 101, 100, 110, 101, 115, 100, 97, 121>>
      [] s = "Thursday" -> <<84, 104, 117, 114, 115, 100, 97, 121>>
      [] s = "Friday" -> <<70, 114, 105, 100, 97, 121>>
      [] s = "Saturday" -> <<83, 97, 116, 117, 114, 100, 97, 121>>
      [] s = "Sunday" -> <<83, 117, 110, 100, 97, 121>>

\* a < b for two sequences of code points (Python compares str lexicographically)
LexLess(a, b) ==
    \E i \in 1..(Len(b)) :
        /\ \A j \in 1..(i - 1) : j <= Len(a) /\ a[j] = b[j]
        /\ (i > Len(a) \/ (i <= Len(a) /\ a[i] < b[i]))
        /\ i - 1 <= Len(a)

StrLt(x, y) == LexLess(Chars(x), Chars(y))

\* current < bound, current > bound as _matches_query evaluates them
PyLt(a, b) == IF a.t = "int" /\ b.t = "int" THEN a.v < b.v ELSE StrLt(a.v, b.v)
PyGt(a, b) == PyLt(b, a)

Digit == <<"0", "1", "2", "3", "4", "5", "6", "7", "8", "9">>

RECURSIVE Dec(_)
\* str(n) for n >= 0
Dec(n) == IF n < 10 THEN Digit[n + 1] ELSE Dec(n \div 10) \o Digit[(n % 10) + 1]

\* key.split(".") for the query keys in use
Split(key) ==
    CASE key = "schedule_details.days" -> <<"schedule_details", "days">>
      [] key = "schedule_details.start_time" -> <<"schedule_details", "start_time">>
      [] key = "schedule_details.end_time" -> <<"schedule_details", "end_time">>
      [] key = "schedule_details.room" -> <<"schedule_details", "room">>
      [] key = "participants.first" -> <<"participants", "first">>
      [] OTHER -> <<key>>

HasDot(key) == Len(Split(key)) > 1

(***************************************************************************)
(* Seed data.                                                              *)
(***************************************************************************)
SeedNames ==
    << "Chess Club",
       "Programming Class",
       "Morning Fitness",
       "Soccer Team",
       "Basketball Team",
       "Art Club" >>

initial_activities ==
    [name \in Range(SeedNames) |->
        CASE name = "Chess Club" ->
               [description |-> S("Learn strategies and compete in chess tournaments"),
                schedule |-> S("Mondays and Fridays, 3:15 PM - 4:45 PM"),
                schedule_details |->
                    D([days |-> L(<<"Monday", "Friday">>),
                       start_time |-> S("15:15"),
                       end_time |-> S("16:45")]),
                max_participants |-> N(12),
                participants |-> L(<<"michael@mergington.edu", "daniel@mergington.edu">>)]
          [] name = "Programming Class" ->
               [description |-> S("Learn programming fundamentals and build software projects"),
                schedule |-> S("Tuesdays and Thursdays, 7:00 AM - 8:00 AM"),
                schedule_details |->
                    D([days |-> L(<<"Tuesday", "Thursday">>),
                       start_time |-> S("07:00"),
                       end_time |-> S("08:00")]),
                max_participants |-> N(20),
                participants |-> L(<<"emma@mergington.edu", "sophia@mergington.edu">>)]
          [] name = "Morning Fitness" ->
               [description |-> S("Early morning physical training and exercises"),
                schedule |-> S("Mondays, Wednesdays, Fridays, 6:30 AM - 7:45 AM"),
                schedule_details |->
                    D([days |-> L(<<"Monday", "Wednesday", "Friday">>),
                       start_time |-> S("06:30"),
                       end_time |-> S("07:45")]),
                max_participants |-> N(30),
                participants |-> L(<<"john@mergington.edu", "olivia@mergington.edu">>)]
          [] name = "Soccer Team" ->
               [description |-> S("Join the school soccer team and compete in matches"),
                schedule |-> S("Tuesdays and Thursdays, 3:30 PM - 5:30 PM"),
                schedule_details |->
                    D([days |-> L(<<"Tuesday", "Thursday">>),
                       start_time |-> S("15:30"),
                       end_time |-> S("17:30")]),
                max_participants |-> N(22),
                participants |-> L(<<"liam@mergington.edu", "noah@mergington.edu">>)]
          [] name = "Basketball Team" ->
               [description |-> S("Practice and compete in basketball tournaments"),
                schedule |-> S("Wednesdays and Fridays, 3:15 PM - 5:00 PM"),
                schedule_details |->
                    D([days |-> L(<<"Wednesday", "Friday">>),
                       start_time |-> S("15:15"),
                       end_time |-> S("17:00")]),
                max_participants |-> N(15),
                participants |-> L(<<"ava@mergington.edu", "mia@mergington.edu">>)]
          [] name = "Art Club" ->
               [description |-> S("Explore various art techniques and create masterpieces"),
                schedule |-> S("Thursdays, 3:15 PM - 5:00 PM"),
                schedule_details |->
                    D([days |-> L(<<"Thursday">>),
                       start_time |-> S("15:15"),
                       end_time |-> S("17:00")]),
                max_participants |-> N(15),
                participants |-> L(<<"amelia@mergington.edu", "harper@mergington.edu">>)]]


initial_teachers ==
    << [username |-> S("mrodriguez"), display_name |-> S("Ms. Rodriguez"),
        password |-> S("sha256(art123)"), role |-> S("teacher")],
       [username |-> S("mchen"), display_name |-> S("Mr. Chen"),
        password |-> S("sha256(chess456)"), role |-> S("teacher")],
       [username |-> S("principal"), display_name |-> S("Principal Martinez"),
        password |-> S("sha256(admin789)"), role |-> S("admin")] >>

(***************************************************************************)
(* A dict that keeps insertion order: [order |-> keys, docs |-> key -> doc] *)
(***************************************************************************)
EmptyStore == [order |-> <<>>, docs |-> EmptyDict]

\* the first n seed activities, as init_database copies them
SeedStore(n) ==
    LET m == IF n < Len(SeedNames) THEN n ELSE Len(SeedNames)
    IN  [order |-> SubSeq(SeedNames, 1, m),
         docs |-> [name \in {SeedNames[i] : i \in 1..m} |-> initial_activities[name]]]

TeacherStore ==
    [order |-> [i \in DOMAIN initial_teachers |-> initial_teachers[i].username.v],
     docs |-> [u \in {initial_teachers[i].username.v : i \in DOMAIN initial_teachers} |->
                  LET i == CHOOSE i \in DOMAIN initial_teachers :
                               initial_teachers[i].username.v = u
                  IN  initial_teachers[i]]]

(***************************************************************************)
(* Index Layer                                                             *)
(***************************************************************************)
\* activity.get("schedule_details", {}).get("days", [])
DaysOf(activity) ==
    IF /\ "schedule_details" \in DOMAIN activity
       /\ activity["schedule_details"].t = "dict"
       /\ "days" \in DOMAIN activity["schedule_details"].v
    THEN activity["schedule_details"].v["days"].v
    ELSE <<>>

AddToIndex(idx, day, name) ==
    IF day \in DOMAIN idx
    THEN [idx EXCEPT ![day] = Append(@, name)]
    ELSE idx @@ (day :> <<name>>)

RECURSIVE IndexDays(_, _, _)
IndexDays(idx, name, days) ==
    IF days = <<>> THEN idx
    ELSE IndexDays(AddToIndex(idx, Head(days), name), name, Tail(days))

RECURSIVE IndexAll(_, _, _)
IndexAll(idx, store, names) ==
    IF names = <<>> THEN idx
    ELSE IndexAll(IndexDays(idx, Head(names), DaysOf(store.docs[Head(names)])),
                  store, Tail(names))

\* the _day_index that _build_indexes leaves, from the dict activities_data names
_build_indexes(store) == IndexAll(EmptyDict, store, store.order)

(***************************************************************************)
(* Query Emulator: InMemoryCollection                                      *)
(***************************************************************************)
\* {"_id": k, **v}
WithId(k, v) == v @@ ("_id" :> S(k))

RECURSIVE Walk(_, _)
\* the loop over key.split("."): the value reached, or no value when a step
\* is not a dict holding the key
Walk(current, keys) ==
    IF keys = <<>> THEN [found |-> TRUE, value |-> current]
    ELSE IF current.t = "dict" /\ Head(keys) \in DOMAIN current.v
         THEN Walk(current.v[Head(keys)], Tail(keys))
         ELSE [found |-> FALSE, value |-> NoneV]

\* one iteration of the loop of _matches_query: TRUE when it does not return False
MatchesKey(doc, key, value) ==
    IF HasDot(key)
    THEN LET w == Walk(D(doc), Split(key))
             current == w.value
         IN  /\ w.found
             /\ IF value.t = "dict"
                THEN IF "$in" \in DOMAIN value.v
                     THEN /\ current.t = "list"
                          /\ \E i \in DOMAIN value.v["$in"].v :
                                 InList(value.v["$in"].v[i], current.v)
                     ELSE IF "$gte" \in DOMAIN value.v
                          THEN ~PyLt(current, value.v["$gte"])
                          ELSE IF "$lte" \in DOMAIN value.v
                               THEN ~PyGt(current, value.v["$lte"])
                               ELSE TRUE
                ELSE PyEq(current, value)
    ELSE key \in DOMAIN doc /\ PyEq(doc[key], value)

\* mutant: one matching key is enough
_matches_query_AnyKey(doc, query) ==
    \E key \in DOMAIN query : MatchesKey(doc, key, query[key])

_matches_query(doc, query) ==
    \A key \in DOMAIN query : MatchesKey(doc, key, query[key])

RECURSIVE Scan(_, _, _)
\* the documents of the store named in names, in that order, that match
Scan(store, names, query) ==
    IF names = <<>> THEN <<>>
    ELSE LET name == Head(names)
             rest == Scan(store, Tail(names), query)
         IN  IF /\ name \in DOMAIN store.docs
                /\ _matches_query(WithId(name, store.docs[name]), query)
             THEN <<WithId(name, store.docs[name])>> \o rest
             ELSE rest

\* the fallback of find: every document of the store against the query
FullScan(store, query) == Scan(store, store.order, query)

\* the candidates of the day-index path: activity = self.data.get(name), kept
\* when "activity and self._matches_query(...)"
RECURSIVE IndexScan(_, _, _)
IndexScan(store, names, query) ==
    IF names = <<>> THEN <<>>
    ELSE LET name == Head(names)
             rest == IndexScan(store, Tail(names), query)
         IN  IF /\ name \in DOMAIN store.docs
                /\ DOMAIN store.docs[name] # {}
                /\ _matches_query(WithId(name, store.docs[name]), query)
             THEN <<WithId(name, store.docs[name])>> \o rest
             ELSE rest

\* the day the index path looks up: day_filter["$in"][0]
IndexDay(query) == query["schedule_details.days"].v["$in"].v[1]

\* the condition under which find returns from the day-index path
UsesIndex(query, idx) ==
    /\ "schedule_details.days" \in DOMAIN query
    /\ query["schedule_details.days"].t = "dict"
    /\ "$in" \in DOMAIN query["schedule_details.days"].v
    /\ query["schedule_details.days"].v["$in"].v # <<>>
    /\ IndexDay(query) \in DOMAIN idx

\* the exception find raises, "" when it returns: day_filter["$in"][0] on an
\* empty list
find_raises(query) ==
    IF /\ DOMAIN query # {}
       /\ "schedule_details.days" \in DOMAIN query
       /\ query["schedule_details.days"].t = "dict"
       /\ "$in" \in DOMAIN query["schedule_details.days"].v
       /\ query["schedule_details.days"].v["$in"].v = <<>>
    THEN "IndexError"
    ELSE ""

find(store, idx, query) ==
    IF DOMAIN query = {}
    THEN [i \in DOMAIN store.order |-> WithId(store.order[i], store.docs[store.order[i]])]
    ELSE IF UsesIndex(query, idx)
         THEN IndexScan(store, idx[IndexDay(query)], query)
         ELSE FullScan(store, query)

find_one(store, idx, query) ==
    IF DOMAIN query = {"_id"}
    THEN IF query["_id"].t = "str" /\ query["_id"].v \in DOMAIN store.docs
         THEN D(WithId(query["_id"].v, store.docs[query["_id"].v]))
         ELSE NoneV
    ELSE LET results == find(store, idx, query)
         IN  IF results # <<>> THEN D(results[1]) ELSE NoneV

\* the exception find_one raises, "" when it returns: that of find, which
\* the direct lookup by "_id" does not call
find_one_raises(query) ==
    IF DOMAIN query = {"_id"} THEN "" ELSE find_raises(query)

\* sorted(lst) for a list of str: ascending by code points, equal elements
\* kept, in the order they had
sorted(lst) ==
    LET rank == [i \in DOMAIN lst |->
                    Cardinality({j \in DOMAIN lst :
                                    \/ StrLt(lst[j], lst[i])
                                    \/ lst[j] = lst[i] /\ j < i}) + 1]
    IN  [r \in DOMAIN lst |-> lst[CHOOSE i \in DOMAIN lst : rank[i] = r]]

\* sorted(days) for a set of str
sorted_set(days) ==
    LET rank == [x \in days |-> Cardinality({y \in days : StrLt(y, x)}) + 1]
    IN  [r \in 1..Cardinality(days) |-> CHOOSE x \in days : rank[x] = r]

RECURSIVE AllDays(_, _)
\* the days of the documents named, one after another
AllDays(store, names) ==
    IF names = <<>> THEN <<>>
    ELSE DaysOf(store.docs[Head(names)]) \o AllDays(store, Tail(names))

\* mutant: the days collected in a list, so a day of two activities is listed twice
aggregate_NoSet(store, pipeline) ==
    LET days == sorted(AllDays(store, store.order))
    IN  [i \in DOMAIN days |-> "_id" :> S(days[i])]

\* aggregate: the pipeline is not read
aggregate(store, pipeline) ==
    LET unique_days == UNION {Range(DaysOf(store.docs[k])) : k \in DOMAIN store.docs}
        days == sorted_set(unique_days)
    IN  [i \in DOMAIN days |-> "_id" :> S(days[i])]

\* mutant: the field assigned a new one-element list instead of appended to
ApplyPush_Overwrite(doc, push) ==
    [f \in DOMAIN doc \cup DOMAIN push |->
        IF f \in DOMAIN push THEN L(<<push[f]>>) ELSE doc[f]]

\* the "$push" block on one document
ApplyPush(doc, push) ==
    [f \in DOMAIN doc \cup DOMAIN push |->
        IF f \in DOMAIN push
        THEN IF f \in DOMAIN doc THEN L(Append(doc[f].v, push[f])) ELSE L(<<push[f]>>)
        ELSE doc[f]]

RECURSIVE Without_First(_, _)
\* mutant: a single lst.remove(value), which takes out the first occurrence only
Without_First(lst, value) ==
    IF lst = <<>> THEN <<>>
    ELSE IF Head(lst) = value THEN Tail(lst)
         ELSE <<Head(lst)>> \o Without_First(Tail(lst), value)

RECURSIVE Without(_, _)
\* the list after "while value in lst: lst.remove(value)"
Without(lst, value) ==
    IF lst = <<>> THEN <<>>
    ELSE IF Head(lst) = value THEN Without(Tail(lst), value)
         ELSE <<Head(lst)>> \o Without(Tail(lst), value)

\* the "$pull" block on one document
ApplyPull(doc, pull) ==
    [f \in DOMAIN doc |->
        IF f \in DOMAIN pull /\ doc[f].t = "list"
        THEN L(Without(doc[f].v, pull[f]))
        ELSE doc[f]]

\* mutant: the two blocks run in the order in which the update lists its keys
ApplyUpdate_AsListed(doc, update) ==
    LET Step(d, op) == IF op = "$push" THEN ApplyPush(d, update.get["$push"])
                       ELSE ApplyPull(d, update.get["$pull"])
    IN  IF Len(update.order) = 2
        THEN Step(Step(doc, update.order[1]), update.order[2])
        ELSE Step(doc, update.order[1])

\* the document after the two blocks of update_one, "$push" first, then "$pull"
ApplyUpdate(doc, update) ==
    LET pushed == IF "$push" \in DOMAIN update.get
                  THEN ApplyPush(doc, update.get["$push"]) ELSE doc
    IN  IF "$pull" \in DOMAIN update.get
        THEN ApplyPull(pushed, update.get["$pull"]) ELSE pushed

\* the exception update_one raises, "" when it returns: that of find_one, or
\* that of .append on a field that holds no list
update_one_raises(store, idx, query, update) ==
    IF find_one_raises(query) # "" THEN find_one_raises(query)
    ELSE LET doc == find_one(store, idx, query)
         IN  IF /\ Truthy(doc)
                /\ "$push" \in DOMAIN update.get
                /\ \E f \in DOMAIN update.get["$push"] :
                       /\ f \in DOMAIN store.docs[doc.v["_id"].v]
                       /\ store.docs[doc.v["_id"].v][f].t # "list"
             THEN "AttributeError"
             ELSE ""

\* mutant: the update applied and UpdateResult(0) returned
update_one_ReportsZero(store, idx, query, update) ==
    LET doc == find_one(store, idx, query)
    IN  IF ~Truthy(doc)
        THEN [store |-> store, modified_count |-> 0]
        ELSE LET doc_id == doc.v["_id"].v
             IN  [store |-> [store EXCEPT !.docs[doc_id] = ApplyUpdate(@, update)],
                  modified_count |-> 0]

\* update_one: the store it leaves and the modified_count it returns
update_one(store, idx, query, update) ==
    LET doc == find_one(store, idx, query)
    IN  IF ~Truthy(doc)
        THEN [store |-> store, modified_count |-> 0]
        ELSE LET doc_id == doc.v["_id"].v
             IN  [store |-> [store EXCEPT !.docs[doc_id] = ApplyUpdate(@, update)],
                  modified_count |-> 1]

(***************************************************************************)
(* Response Cache                                                          *)
(***************************************************************************)
\* x or ''
OrEmpty(x) == IF Truthy(x) THEN x.v ELSE ""

\* hashlib.md5(params.encode()).hexdigest(), the digest taken as injective
md5(params) == [md5 |-> params]

CacheKeyParams(day, start_time, end_time, page, page_size) ==
    "day=" \o OrEmpty(day) \o "&start_time=" \o OrEmpty(start_time)
        \o "&end_time=" \o OrEmpty(end_time)
        \o "&page=" \o Dec(page) \o "&page_size=" \o Dec(page_size)

_generate_cache_key(day, start_time, end_time, page, page_size) ==
    md5(CacheKeyParams(day, start_time, end_time, page, page_size))

\* mutant: the cache left as it is
_invalidate_cache_Keeps(cache) == cache

\* _cache after _invalidate_cache()
_invalidate_cache(cache) == EmptyDict

(***************************************************************************)
(* get_activities                                                          *)
(***************************************************************************)
\* the query dict built from the filters given
BuildQuery(day, start_time, end_time) ==
    LET q1 == IF Truthy(day)
              THEN "schedule_details.days" :> D("$in" :> L(<<day.v>>))
              ELSE EmptyDict
        q2 == IF Truthy(start_time)
              THEN "schedule_details.start_time" :> D("$gte" :> start_time)
              ELSE EmptyDict
        q3 == IF Truthy(end_time)
              THEN "schedule_details.end_time" :> D("$lte" :> end_time)
              ELSE EmptyDict
    IN  q1 @@ q2 @@ q3

\* name = activity.pop('_id'); (name, activity)
PopId(doc) == [name |-> doc["_id"].v,
               activity |-> [f \in DOMAIN doc \ {"_id"} |-> doc[f]]]

\* all_activities
AllActivities(store, idx, day, start_time, end_time) ==
    LET found == find(store, idx, BuildQuery(day, start_time, end_time))
    IN  [i \in DOMAIN found |-> PopId(found[i])]

\* lst[start_idx:end_idx], indices from 0, for 0 <= start_idx <= end_idx
Slice(lst, start_idx, end_idx) ==
    LET hi == IF end_idx < Len(lst) THEN end_idx ELSE Len(lst)
    IN  IF start_idx >= hi THEN <<>> ELSE SubSeq(lst, start_idx + 1, hi)

RECURSIVE ToDict(_, _)
\* the dict "activities" filled from the pairs in order: a name given again
\* keeps its place and takes the later value
ToDict(acc, pairs) ==
    IF pairs = <<>> THEN acc
    ELSE LET p == Head(pairs)
         IN  IF \E i \in DOMAIN acc : acc[i].name = p.name
             THEN ToDict([i \in DOMAIN acc |-> IF acc[i].name = p.name THEN p ELSE acc[i]],
                         Tail(pairs))
             ELSE ToDict(Append(acc, p), Tail(pairs))

\* mutant: has_next true also when the page ends at the last result
Pagination_NextAtEnd(total_count, page, page_size) ==
    [page |-> page,
     page_size |-> page_size,
     total_count |-> total_count,
     total_pages |-> (total_count + page_size - 1) \div page_size,
     has_next |-> ((page - 1) * page_size + page_size <= total_count),
     has_previous |-> (page > 1)]

Pagination(total_count, page, page_size) ==
    [page |-> page,
     page_size |-> page_size,
     total_count |-> total_count,
     total_pages |-> (total_count + page_size - 1) \div page_size,
     has_next |-> ((page - 1) * page_size + page_size < total_count),
     has_previous |-> (page > 1)]

\* mutant: the flat mapping only when the page is larger than the result list
IsFlat_Strict(total_count, page, page_size) == page = 1 /\ page_size > total_count

\* the condition under which the flat mapping replaces the envelope
IsFlat(total_count, page, page_size) == page = 1 /\ page_size >= total_count

\* the result get_activities computes on a cache miss
ComputeResult(store, idx, day, start_time, end_time, page, page_size) ==
    LET all_activities == AllActivities(store, idx, day, start_time, end_time)
        total_count == Len(all_activities)
        start_idx == (page - 1) * page_size
        end_idx == start_idx + page_size
        activities == ToDict(<<>>, Slice(all_activities, start_idx, end_idx))
    IN  IF IsFlat(total_count, page, page_size)
        THEN [shape |-> "flat", activities |-> activities,
              pagination |-> EmptyDict]
        ELSE [shape |-> "envelope", activities |-> activities,
              pagination |-> Pagination(total_count, page, page_size)]

\* mutant: the result holds its own copies of the lists
Render_Copied(result, store) == result

\* What a result held by the cache serialises to.  The documents find returns
\* are shallow copies ({"_id": k, **v}): a list-valued field of a copy is the
\* very list object of the store document, which update_one changes in place.
Render(result, store) ==
    [result EXCEPT !.activities =
        [i \in DOMAIN result.activities |->
            LET p == result.activities[i]
            IN  [p EXCEPT !.activity =
                    [f \in DOMAIN p.activity |->
                        IF /\ p.activity[f].t = "list"
                           /\ p.name \in DOMAIN store.docs
                           /\ f \in DOMAIN store.docs[p.name]
                        THEN store.docs[p.name][f]
                        ELSE p.activity[f]]]]]

get_activities(day, start_time, end_time, page, page_size) ==
    LET cache_key == _generate_cache_key(day, start_time, end_time, page, page_size)
        args == <<day, start_time, end_time, page, page_size>>
    IN  IF cache_key \in DOMAIN _cache
        THEN /\ last' = [op |-> "get_activities", args |-> args, status |-> 200,
                         hit |-> TRUE, exc |-> "", resp |-> Render(_cache[cache_key], data)]
             /\ UNCHANGED <<requests, activities_data, teachers_data, data, _day_index,
                            _cache, origin>>
        ELSE LET result == ComputeResult(data, _day_index, day, start_time,
                                         end_time, page, page_size)
             IN  /\ _cache' = _cache @@ (cache_key :> result)
                 /\ origin' = origin @@ (cache_key :> args)
                 /\ last' = [op |-> "get_activities", args |-> args, status |-> 200,
                             hit |-> FALSE, exc |-> "", resp |-> Render(result, data)]
                 /\ UNCHANGED <<requests, activities_data, teachers_data, data, _day_index>>

\* get_available_days: the "_id" of every document of aggregate([]), sorted
get_available_days ==
    LET docs == aggregate(data, <<>>)
        days == [i \in DOMAIN docs |-> docs[i]["_id"].v]
    IN  /\ last' = [op |-> "get_available_days", args |-> <<>>, status |-> 200,
                    hit |-> FALSE, exc |-> "", resp |-> sorted(days)]
        /\ UNCHANGED <<requests, activities_data, teachers_data, data, _day_index, _cache, origin>>

(***************************************************************************)
(* signup_for_activity, unregister_from_activity                           *)
(***************************************************************************)
\* mutant: the cache invalidated before the HTTPException is raised
Raise_Invalidates(op, args, status, detail) ==
    /\ last' = [op |-> op, args |-> args, status |-> status, hit |-> FALSE, exc |-> "",
                resp |-> [detail |-> detail]]
    /\ _cache' = _invalidate_cache(_cache)
    /\ origin' = EmptyDict
    /\ UNCHANGED <<requests, activities_data, teachers_data, data, _day_index>>

\* raise HTTPException(status_code=status, detail=detail)
Raise(op, args, status, detail) ==
    /\ last' = [op |-> op, args |-> args, status |-> status, hit |-> FALSE, exc |-> "",
                resp |-> [detail |-> detail]]
    /\ UNCHANGED <<requests, activities_data, teachers_data, data, _day_index, _cache, origin>>

\* the update applied, the cache invalidated, the message returned; 500 when
\* update_one reports no modification
Mutate(op, args, activity_name, update, message) ==
    LET result == update_one(data, _day_index, "_id" :> S(activity_name), update)
    IN  IF result.modified_count = 0
        THEN /\ last' = [op |-> op, args |-> args, status |-> 500, hit |-> FALSE, exc |-> "",
                         resp |-> [detail |-> "Failed to update activity"]]
             /\ data' = result.store
             /\ UNCHANGED <<requests, activities_data, teachers_data, _day_index, _cache, origin>>
        ELSE /\ data' = result.store
             /\ _cache' = _invalidate_cache(_cache)
             /\ origin' = EmptyDict
             /\ last' = [op |-> op, args |-> args, status |-> 200, hit |-> FALSE, exc |-> "",
                         resp |-> [message |-> message]]
             /\ UNCHANGED <<requests, activities_data, teachers_data, _day_index>>

\* "$push": {"participants": email}
PushUpdate(email) ==
    [order |-> <<"$push">>, get |-> ("$push" :> ("participants" :> email))]

\* "$pull": {"participants": email}
PullUpdate(email) ==
    [order |-> <<"$pull">>, get |-> ("$pull" :> ("participants" :> email))]

\* mutant: email looked up among the keys of the document
AlreadySignedUp_InKeys(email, activity) == email \in DOMAIN activity.v

\* the check signup makes before it appends
AlreadySignedUp(email, activity) == InList(email, activity.v["participants"].v)

\* mutant: the test inverted
NotRegistered_Inverted(email, activity) == InList(email, activity.v["participants"].v)

\* the check unregister makes before it removes
NotRegistered(email, activity) == ~InList(email, activity.v["participants"].v)

\* mutant: the activity looked up before the teacher
signup_ActivityFirst(activity_name, email, teacher_username) ==
    LET args == <<activity_name, email, teacher_username>>
        op == "signup_for_activity"
        teacher == find_one(teachers_data, _day_index, "_id" :> teacher_username)
        activity == find_one(data, _day_index, "_id" :> S(activity_name))
    IN  IF ~Truthy(activity)
        THEN Raise(op, args, 404, "Activity not found")
        ELSE IF ~Truthy(teacher_username)
        THEN Raise(op, args, 401, "Authentication required for this action")
        ELSE IF ~Truthy(teacher)
        THEN Raise(op, args, 401, "Invalid teacher credentials")
        ELSE IF AlreadySignedUp(email, activity)
        THEN Raise(op, args, 400, "Already signed up for this activity")
        ELSE Mutate(op, args, activity_name, PushUpdate(email),
                    "Signed up " \o email \o " for " \o activity_name)

signup_for_activity(activity_name, email, teacher_username) ==
    LET args == <<activity_name, email, teacher_username>>
        op == "signup_for_activity"
        teacher == find_one(teachers_data, _day_index, "_id" :> teacher_username)
        activity == find_one(data, _day_index, "_id" :> S(activity_name))
    IN  IF ~Truthy(teacher_username)
        THEN Raise(op, args, 401, "Authentication required for this action")
        ELSE IF ~Truthy(teacher)
        THEN Raise(op, args, 401, "Invalid teacher credentials")
        ELSE IF ~Truthy(activity)
        THEN Raise(op, args, 404, "Activity not found")
        ELSE IF AlreadySignedUp(email, activity)
        THEN Raise(op, args, 400, "Already signed up for this activity")
        ELSE Mutate(op, args, activity_name, PushUpdate(email),
                    "Signed up " \o email \o " for " \o activity_name)

unregister_from_activity(activity_name, email, teacher_username) ==
    LET args == <<activity_name, email, teacher_username>>
        op == "unregister_from_activity"
        teacher == find_one(teachers_data, _day_index, "_id" :> teacher_username)
        activity == find_one(data, _day_index, "_id" :> S(activity_name))
    IN  IF ~Truthy(teacher_username)
        THEN Raise(op, args, 401, "Authentication required for this action")
        ELSE IF ~Truthy(teacher)
        THEN Raise(op, args, 401, "Invalid teacher credentials")
        ELSE IF ~Truthy(activity)
        THEN Raise(op, args, 404, "Activity not found")
        ELSE IF NotRegistered(email, activity)
        THEN Raise(op, args, 400, "Not registered for this activity")
        ELSE Mutate(op, args, activity_name, PullUpdate(email),
                    "Unregistered " \o email \o " from " \o activity_name)

(***************************************************************************)
(* The handlers, called one after another (no interleaving).               *)
(***************************************************************************)
NumActs == 2     \* seed activities loaded
MaxCache == 2    \* cache entries the model lets get_activities create

NoCall == [op |-> "none", args |-> <<>>, status |-> 0, hit |-> FALSE, exc |-> "", resp |-> EmptyDict]

\* activities_collection.data holds the seed documents; or, as database_old.py
\* leaves it when init_database rebinds activities_data, still the empty dict
Init ==
    /\ activities_data = SeedStore(NumActs)
    /\ teachers_data = TeacherStore
    /\ data \in {SeedStore(NumActs), EmptyStore}
    /\ _day_index = _build_indexes(activities_data)
    /\ _cache = EmptyDict
    /\ origin = EmptyDict
    /\ last = NoCall
    /\ requests = <<>>

\* the model creates a further cache entry only below MaxCache
CacheRoom(day, start_time, end_time, page, page_size) ==
    \/ _generate_cache_key(day, start_time, end_time, page, page_size) \in DOMAIN _cache
    \/ Cardinality(DOMAIN _cache) < MaxCache

Filters ==
    { <<NoneV, NoneV, NoneV>>,
      <<S(""), NoneV, NoneV>>,
      <<S("Monday"), NoneV, NoneV>>,
      <<NoneV, S("07:00&end_time=08:00"), NoneV>>,
      <<NoneV, S("07:00"), S("08:00&end_time=")>> }

Paging == { <<1, 50>>, <<2, 1>> }

ActivityNames == {"Chess Club", "Nope"}
Emails == {"michael@mergington.edu", "new@x.edu"}
TeacherNames == {NoneV, S(""), S("ghost"), S("mchen")}

GetActivities ==
    \E f \in Filters, p \in Paging :
        /\ CacheRoom(f[1], f[2], f[3], p[1], p[2])
        /\ get_activities(f[1], f[2], f[3], p[1], p[2])

Signup ==
    \E a \in ActivityNames, e \in Emails, t \in TeacherNames :
        signup_for_activity(a, e, t)

Unregister ==
    \E a \in ActivityNames, e \in Emails, t \in TeacherNames :
        unregister_from_activity(a, e, t)

Next == GetActivities \/ Signup \/ Unregister

Spec == Init /\ [][Next]_vars

(***************************************************************************)
(* Claims about the handlers (specification Spec)                          *)
(***************************************************************************)
Participants(store, name) == store.docs[name]["participants"].v

NoDuplicates(lst) == \A i, j \in DOMAIN lst : lst[i] = lst[j] => i = j

IsGet(call) == call.op = "get_activities"
IsMutation(call) == call.op \in {"signup_for_activity", "unregister_from_activity"}

\* C1: every get_activities response, from the cache or not, is the payload
\* computed from the current Record Store for the parameters of the request.
C1_ResponseIsCurrent ==
    IsGet(last) =>
        last.resp = ComputeResult(data, _day_index, last.args[1], last.args[2],
                                  last.args[3], last.args[4], last.args[5])

\* two requests name the same (day, start_time, end_time, page, page_size),
\* an unset filter and an empty one counting as equal
SameTuple(a, b) ==
    /\ OrEmpty(a[1]) = OrEmpty(b[1])
    /\ OrEmpty(a[2]) = OrEmpty(b[2])
    /\ OrEmpty(a[3]) = OrEmpty(b[3])
    /\ a[4] = b[4]
    /\ a[5] = b[5]

KeyOf(args) == _generate_cache_key(args[1], args[2], args[3], args[4], args[5])

\* C2: a request served from the cache is served the entry that a request
\* with the same parameter tuple created: requests share a cache key only if
\* their tuples are equal.
C2_KeyNamesOneTuple ==
    (IsGet(last) /\ last.hit) => SameTuple(last.args, origin[KeyOf(last.args)])

\* C4: every activity's participants list holds each email at most once.
C4_ParticipantsUnique ==
    \A name \in DOMAIN data.docs : NoDuplicates(Participants(data, name))

C4_Witness ==
    /\ last.op = "signup_for_activity"
    /\ last.status = 200
    /\ InList(last.args[2], Participants(data, last.args[1]))
    /\ Len(Participants(data, last.args[1])) > 2

\* the outcome the checks give, taken in order, for a call made in the state
\* (teachers, store); fourth is the 400 detail of the handler
Outcome(teachers, store, activity_name, email, teacher_username, fourth) ==
    IF teacher_username = NoneV \/ teacher_username = S("")
    THEN [status |-> 401, detail |-> "Authentication required for this action"]
    ELSE IF teacher_username.v \notin DOMAIN teachers.docs
    THEN [status |-> 401, detail |-> "Invalid teacher credentials"]
    ELSE IF activity_name \notin DOMAIN store.docs
    THEN [status |-> 404, detail |-> "Activity not found"]
    ELSE IF fourth.fails
    THEN [status |-> 400, detail |-> fourth.detail]
    ELSE [status |-> 200, detail |-> ""]

Present(store, name, email) ==
    name \in DOMAIN store.docs /\ \E i \in DOMAIN Participants(store, name) :
                                      Participants(store, name)[i] = email

SignupStep ==
    LET a == last'.args[1]
        e == last'.args[2]
        t == last'.args[3]
        out == Outcome(teachers_data, data, a, e, t,
                       [fails |-> Present(data, a, e),
                        detail |-> "Already signed up for this activity"])
    IN  last'.op = "signup_for_activity" =>
            /\ last'.status = out.status
            /\ last'.status # 200 => last'.resp = [detail |-> out.detail]
            /\ last'.status = 200 =>
                   /\ Participants(data', a) = Append(Participants(data, a), e)
                   /\ Len(Participants(data', a)) = Len(Participants(data, a)) + 1

\* C5: signup_for_activity answers 401, 401, 404, 400 by its checks in that
\* order, and otherwise appends email as the last participant.
C5_SignupOutcome == [][SignupStep]_vars

C5_Witness ==
    /\ last.op = "signup_for_activity"
    /\ last.status = 200
    /\ Participants(data, last.args[1])[Len(Participants(data, last.args[1]))]
           = last.args[2]

UnregisterStep ==
    LET a == last'.args[1]
        e == last'.args[2]
        t == last'.args[3]
        out == Outcome(teachers_data, data, a, e, t,
                       [fails |-> ~Present(data, a, e),
                        detail |-> "Not registered for this activity"])
    IN  last'.op = "unregister_from_activity" =>
            /\ last'.status = out.status
            /\ last'.status # 200 => last'.resp = [detail |-> out.detail]
            /\ last'.status = 200 =>
                   /\ ~Present(data', a, e)
                   /\ Participants(data', a) =
                          SelectSeq(Participants(data, a), LAMBDA x : x # e)

\* C6: unregister_from_activity makes the same checks in the same order, fails
\* with 400 exactly when email is not a participant, and otherwise leaves the
\* list without email, the others in their order.
C6_UnregisterOutcome == [][UnregisterStep]_vars

C6_Witness ==
    /\ last.op = "unregister_from_activity"
    /\ last.status = 200
    /\ ~Present(data, last.args[1], last.args[2])
    /\ Len(Participants(data, last.args[1])) >= 2

CacheStep ==
    /\ (IsMutation(last') /\ last'.status = 200) => DOMAIN _cache' = {}
    /\ ~(IsMutation(last') /\ last'.status = 200) =>
           \A k \in DOMAIN _cache : k \in DOMAIN _cache' /\ _cache'[k] = _cache[k]
    /\ IsGet(last') =>
           /\ Cardinality(DOMAIN _cache') <= Cardinality(DOMAIN _cache) + 1
           /\ last'.hit => _cache' = _cache

\* C7: a successful signup or unregister leaves the cache empty; every other
\* call keeps every entry as it is, and get_activities adds at most one.
C7_CacheEviction == [][CacheStep]_vars

\* the cache refilled after a mutation emptied it
C7_Witness ==
    /\ data # SeedStore(NumActs)
    /\ data # EmptyStore
    /\ Cardinality(DOMAIN _cache) = MaxCache
    /\ IsMutation(last) /\ last.status = 400

UpdateReports ==
    \A call \in {last'}, after \in {data'} :
        /\ DOMAIN after.docs = DOMAIN data.docs
        /\ IsMutation(call) =>
               /\ call.status # 500
               /\ Truthy(find_one(after, _day_index, "_id" :> S(call.args[1]))) =>
                      \A u \in {PushUpdate(call.args[2]), PullUpdate(call.args[2])} :
                          update_one(after, _day_index, "_id" :> S(call.args[1]),
                                     u).modified_count = 1

\* C14: no signup_for_activity or unregister_from_activity call ends with
\* status 500: no step removes a key from the store, and update_one on the
\* key of an activity that find_one finds reports modified_count 1.
C14_No500 == [][UpdateReports]_vars

\* an unregistration that went through update_one on a roster a signup had
\* extended before
C14_Witness ==
    /\ last.op = "unregister_from_activity"
    /\ last.status = 200
    /\ last.args[2] = "michael@mergington.edu"
    /\ Present(data, "Chess Club", "new@x.edu")

ErrorStep ==
    (IsMutation(last') /\ last'.status \in {400, 401, 404}) =>
        /\ data' = data
        /\ activities_data' = activities_data
        /\ teachers_data' = teachers_data
        /\ _day_index' = _day_index
        /\ _cache' = _cache

\* C20: a signup_for_activity or unregister_from_activity call that ends
\* with 401, 404 or 400 leaves the activities, their participants lists, the
\* teacher records, the day index and the response cache as they were.
C20_ErrorChangesNothing == [][ErrorStep]_vars

\* a call refused for an activity that does not exist, made while the cache
\* holds responses computed after an earlier signup
C20_Witness ==
    /\ IsMutation(last)
    /\ last.status = 404
    /\ last.args[1] = "Nope"
    /\ _cache # EmptyDict
    /\ data # EmptyStore
    /\ Present(data, "Chess Club", "new@x.edu")

(***************************************************************************)
(* get_activities as a function of the store and the request               *)
(* (specification SpecGet): one request computed, then served again.       *)
(***************************************************************************)
MaxActs == 5       \* seed activities loaded, 0..MaxActs
MaxPage == 3       \* page in 1..MaxPage
MaxPageSize == 3   \* page_size in 1..MaxPageSize, and the default
DefaultPageSize == 50

InitGet ==
    /\ \E n \in 0..MaxActs : activities_data = SeedStore(n)
    /\ teachers_data = TeacherStore
    /\ data \in {activities_data, EmptyStore}
    /\ _day_index = _build_indexes(activities_data)
    /\ _cache = EmptyDict
    /\ origin = EmptyDict
    /\ last = NoCall
    /\ requests = <<>>

DayArgs == {NoneV, S(""), S("Monday"), S("Sunday")}
StartArgs == {NoneV, S("07:00"), S("15:15"), S("9:00")}
EndArgs == {NoneV, S("08:00"), S("17:00")}

GetArgs ==
    {<<d, s, e, 1, DefaultPageSize>> : d \in DayArgs, s \in StartArgs, e \in EndArgs}
    \cup {<<d, NoneV, NoneV, p, ps>> :
              d \in {NoneV, S("Monday")}, p \in 1..MaxPage, ps \in 1..MaxPageSize}

GetOnce ==
    \E a \in GetArgs :
        /\ _cache = EmptyDict \/ KeyOf(a) \in DOMAIN _cache
        /\ get_activities(a[1], a[2], a[3], a[4], a[5])

NextGet == GetOnce

SpecGet == InitGet /\ [][NextGet]_vars

Min(a, b) == IF a < b THEN a ELSE b
Max(a, b) == IF a > b THEN a ELSE b

\* the least m with m * d >= n
Ceil(n, d) == CHOOSE m \in 0..n : m * d >= n /\ (m = 0 \/ (m - 1) * d < n)

\* C8: when the envelope is returned for a result list of n activities, it
\* holds the items at offsets [(page-1)*page_size, min(page*page_size, n)) in
\* result order, total_count = n, total_pages = ceil(n / page_size), has_next
\* iff page*page_size < n, has_previous iff page > 1.
C8_Pagination ==
    (IsGet(last) /\ last.resp.shape = "envelope") =>
        LET all == AllActivities(data, _day_index, last.args[1], last.args[2],
                                 last.args[3])
            n == Len(all)
            page == last.args[4]
            page_size == last.args[5]
            first == (page - 1) * page_size
            count == Max(0, Min(page * page_size, n) - first)
            pg == last.resp.pagination
        IN  /\ last.resp.activities = [i \in 1..count |-> all[first + i]]
            /\ pg.page = page
            /\ pg.page_size = page_size
            /\ pg.total_count = n
            /\ pg.total_pages = Ceil(n, page_size)
            /\ pg.has_next = (page * page_size < n)
            /\ pg.has_previous = (page > 1)

\* n = 5, page_size = 2, page = 2: offsets 2 and 3, three pages
C8_Witness ==
    /\ IsGet(last)
    /\ last.args[4] = 2 /\ last.args[5] = 2
    /\ last.resp.shape = "envelope"
    /\ last.resp.pagination.total_count = 5
    /\ last.resp.pagination.total_pages = 3
    /\ last.resp.pagination.has_next
    /\ last.resp.pagination.has_previous
    /\ [i \in 1..2 |-> last.resp.activities[i].name] = <<data.order[3], data.order[4]>>

\* C15: get_activities returns the flat mapping, holding every result and no
\* pagination, exactly when page = 1 and page_size >= total_count
\* (total_count = 0 included); otherwise it returns the envelope with
\* 'activities' and the six pagination fields, also when the slice is empty.
C15_ResponseShape ==
    IsGet(last) =>
        LET all == AllActivities(data, _day_index, last.args[1], last.args[2],
                                 last.args[3])
            n == Len(all)
            page == last.args[4]
            page_size == last.args[5]
        IN  IF page = 1 /\ page_size >= n
            THEN /\ last.resp.shape = "flat"
                 /\ last.resp.activities = all
                 /\ last.resp.pagination = EmptyDict
            ELSE /\ last.resp.shape = "envelope"
                 /\ DOMAIN last.resp.pagination =
                        {"page", "page_size", "total_count", "total_pages",
                         "has_next", "has_previous"}
                 /\ (page > Ceil(n, page_size)) => last.resp.activities = <<>>

\* the envelope with an empty slice, for a page beyond the last one of a
\* result list that is not empty
C15_Witness ==
    /\ IsGet(last)
    /\ last.resp.shape = "envelope"
    /\ last.resp.activities = <<>>
    /\ last.resp.pagination.total_count > 0
    /\ last.resp.pagination.page > last.resp.pagination.total_pages

\* a zero-padded HH:MM string
Padded(s) ==
    LET c == Chars(s)
    IN  /\ Len(c) = 5
        /\ c[3] = 58
        /\ \A i \in {1, 2, 4, 5} : c[i] \in 48..57

\* minutes since midnight of a zero-padded HH:MM string
Minutes(s) ==
    LET c == Chars(s)
    IN  ((c[1] - 48) * 10 + (c[2] - 48)) * 60 + (c[4] - 48) * 10 + (c[5] - 48)

Unset(x) == x = NoneV \/ x = S("")

Schedule(store, name) == store.docs[name]["schedule_details"].v

\* C9: the unpaginated result is exactly the activities of the store whose
\* days hold day (if given), whose start_time is at or after start_time (if
\* given) and whose end_time is at or before end_time (if given), zero-padded
\* HH:MM times taken in time order; the filters given are conjoined.
C9_FilterSemantics ==
    (/\ IsGet(last)
     /\ last.resp.shape = "flat"
     /\ Unset(last.args[2]) \/ Padded(last.args[2].v)
     /\ Unset(last.args[3]) \/ Padded(last.args[3].v)) =>
        LET day == last.args[1]
            start_time == last.args[2]
            end_time == last.args[3]
        IN  {last.resp.activities[i].name : i \in DOMAIN last.resp.activities} =
                {a \in DOMAIN data.docs :
                    /\ Unset(day) \/ InList(day.v, Schedule(data, a)["days"].v)
                    /\ \/ Unset(start_time)
                       \/ Minutes(Schedule(data, a)["start_time"].v) >= Minutes(start_time.v)
                    /\ \/ Unset(end_time)
                       \/ Minutes(Schedule(data, a)["end_time"].v) <= Minutes(end_time.v)}

\* all three filters given, some activities kept and some left out
C9_Witness ==
    /\ IsGet(last)
    /\ last.resp.shape = "flat"
    /\ ~Unset(last.args[1]) /\ ~Unset(last.args[2]) /\ ~Unset(last.args[3])
    /\ last.resp.activities # <<>>
    /\ Len(last.resp.activities) < Len(data.order)

(***************************************************************************)
(* The Query Emulator called directly on activities_collection             *)
(* (specification SpecDB).                                                 *)
(***************************************************************************)
MaxDbActs == 3   \* seed activities loaded, 0..MaxDbActs
MaxLen == 3      \* a $push is made only onto a list shorter than MaxLen

\* the store with the document name reduced to the fields that are no
\* schedule and no roster
StripDoc(store, name) ==
    IF name \in DOMAIN store.docs
    THEN [store EXCEPT !.docs[name] =
              [f \in {"description", "max_participants"} |-> @[f]]]
    ELSE store

InitDB ==
    /\ \E n \in 0..MaxDbActs :
           activities_data \in {SeedStore(n), StripDoc(SeedStore(n), "Programming Class")}
    /\ teachers_data = TeacherStore
    /\ data \in {activities_data, EmptyStore}
    /\ _day_index = _build_indexes(activities_data)
    /\ _cache = EmptyDict
    /\ origin = EmptyDict
    /\ last = NoCall
    /\ requests = <<>>

DaysIn(days) == "schedule_details.days" :> D("$in" :> L(days))

FindQueries ==
    { EmptyDict,
      "_id" :> S("Chess Club"),
      DaysIn(<<"Monday">>),
      DaysIn(<<"Sunday">>),
      DaysIn(<<"Monday", "Tuesday">>),
      DaysIn(<<"Sunday", "Tuesday">>),
      DaysIn(<<"Tuesday">>) @@ ("schedule_details.start_time" :> D("$gte" :> S("07:00"))),
      DaysIn(<<"Monday">>) @@ ("schedule_details.end_time" :> D("$lte" :> S("08:00"))),
      "schedule_details.start_time" :> D("$gte" :> S("07:00")),
      "schedule_details.start_time" :> S("15:15"),
      "schedule_details.room" :> S("B12"),
      "max_participants" :> N(12),
      "waitlist" :> L(<<"new@x.edu">>),
      DaysIn(<<>>) }

UpdateQueries ==
    { "_id" :> S("Chess Club"),
      "_id" :> S("Nope"),
      DaysIn(<<"Monday">>) }

Push(field, value) == [order |-> <<"$push">>, get |-> ("$push" :> (field :> value))]
Pull(field, value) == [order |-> <<"$pull">>, get |-> ("$pull" :> (field :> value))]
\* {"$push": {field: value}, "$pull": {field: value}} and the same update with
\* its keys the other way round
PushPull(field, value) ==
    [order |-> <<"$push", "$pull">>,
     get |-> ("$push" :> (field :> value)) @@ ("$pull" :> (field :> value))]
PullPush(field, value) ==
    [order |-> <<"$pull", "$push">>,
     get |-> ("$push" :> (field :> value)) @@ ("$pull" :> (field :> value))]

Updates ==
    { Push("participants", "new@x.edu"),
      Push("waitlist", "new@x.edu"),
      Pull("participants", "michael@mergington.edu"),
      Pull("participants", "new@x.edu"),
      Pull("waitlist", "new@x.edu"),
      Push("max_participants", "new@x.edu"),
      PushPull("participants", "new@x.edu"),
      PullPush("participants", "new@x.edu") }

\* no list the update appends to has reached MaxLen
RoomToPush(query, update) ==
    LET doc == find_one(data, _day_index, query)
    IN  ("$push" \in DOMAIN update.get /\ Truthy(doc)) =>
            \A f \in DOMAIN update.get["$push"] :
                (f \in DOMAIN doc.v /\ doc.v[f].t = "list") => Len(doc.v[f].v) < MaxLen

Find ==
    \E q \in FindQueries :
        /\ last' = IF find_raises(q) # ""
                   THEN [op |-> "find", args |-> <<q>>, status |-> 0, hit |-> FALSE,
                         exc |-> find_raises(q), resp |-> <<>>]
                   ELSE [op |-> "find", args |-> <<q>>, status |-> 0, hit |-> FALSE,
                         exc |-> "", resp |-> find(data, _day_index, q)]
        /\ UNCHANGED <<requests, activities_data, teachers_data, data, _day_index, _cache, origin>>

UpdateOne ==
    \E q \in UpdateQueries, u \in Updates :
        /\ RoomToPush(q, u)
        /\ IF update_one_raises(data, _day_index, q, u) # ""
           THEN /\ data' = data
                /\ last' = [op |-> "update_one", args |-> <<q, u>>, status |-> 0,
                            hit |-> FALSE,
                            exc |-> update_one_raises(data, _day_index, q, u),
                            resp |-> EmptyDict]
           ELSE LET result == update_one(data, _day_index, q, u)
                IN  /\ data' = result.store
                    /\ last' = [op |-> "update_one", args |-> <<q, u>>,
                                status |-> result.modified_count, hit |-> FALSE,
                                exc |-> "", resp |-> EmptyDict]
        /\ UNCHANGED <<requests, activities_data, teachers_data, _day_index, _cache, origin>>

NextDB == Find \/ UpdateOne

SpecDB == InitDB /\ [][NextDB]_vars

KeySet(docs) == {docs[i]["_id"].v : i \in DOMAIN docs}

\* C3: for every non-empty query, find returns the documents (by key) that a
\* scan of the whole store with _matches_query returns.
C3_FindIsFullScan ==
    (last.op = "find" /\ DOMAIN last.args[1] # {}) =>
        KeySet(last.resp) =
            {k \in DOMAIN data.docs :
                _matches_query(WithId(k, data.docs[k]), last.args[1])}

PushStep ==
    LET q == last'.args[1]
        u == last'.args[2]
        push == u.get["$push"]
        Matches(k) == _matches_query(WithId(k, data.docs[k]), q)
    IN  (/\ last'.op = "update_one"
         /\ u.order = <<"$push">>
         /\ \E k \in DOMAIN data.docs : Matches(k)
         /\ \A k \in DOMAIN data.docs, f \in DOMAIN push :
                (Matches(k) /\ f \in DOMAIN data.docs[k]) => data.docs[k][f].t = "list") =>
            /\ last'.status = 1
            /\ data'.order = data.order
            /\ DOMAIN data'.docs = DOMAIN data.docs
            /\ \E k \in DOMAIN data.docs :
                   /\ Matches(k)
                   /\ \A other \in DOMAIN data.docs \ {k} :
                          data'.docs[other] = data.docs[other]
                   /\ DOMAIN data'.docs[k] = DOMAIN data.docs[k] \cup DOMAIN push
                   /\ \A f \in DOMAIN data.docs[k] \ DOMAIN push :
                          data'.docs[k][f] = data.docs[k][f]
                   /\ \A f \in DOMAIN push :
                          /\ data'.docs[k][f].t = "list"
                          /\ data'.docs[k][f].v =
                                 Append(IF f \in DOMAIN data.docs[k]
                                        THEN data.docs[k][f].v ELSE <<>>, push[f])

\* C10: update_one with a $push of v to field f on a matching document
\* returns modified-count 1, appends v as the last element of f (a new
\* one-element list if f was absent) and changes nothing else.
C10_PushFrame == [][PushStep]_vars

\* a $push that created the field, on a store of several documents
C10_Witness ==
    /\ last.op = "update_one"
    /\ last.status = 1
    /\ last.args[2] = Push("waitlist", "new@x.edu")
    /\ Len(data.order) >= 2
    /\ \E k \in DOMAIN data.docs :
           /\ "waitlist" \in DOMAIN data.docs[k]
           /\ data.docs[k]["waitlist"].v = <<"new@x.edu">>

PullStep ==
    LET q == last'.args[1]
        u == last'.args[2]
        pull == u.get["$pull"]
        Matches(k) == _matches_query(WithId(k, data.docs[k]), q)
        ListField(k, f) == f \in DOMAIN data.docs[k] /\ data.docs[k][f].t = "list"
    IN  (last'.op = "update_one" /\ u.order = <<"$pull">>) =>
            IF \E k \in DOMAIN data.docs : Matches(k)
            THEN /\ last'.status = 1
                 /\ data'.order = data.order
                 /\ DOMAIN data'.docs = DOMAIN data.docs
                 /\ \E k \in DOMAIN data.docs :
                        /\ Matches(k)
                        /\ \A other \in DOMAIN data.docs \ {k} :
                               data'.docs[other] = data.docs[other]
                        /\ DOMAIN data'.docs[k] = DOMAIN data.docs[k]
                        /\ \A f \in DOMAIN data.docs[k] :
                               IF f \in DOMAIN pull /\ ListField(k, f)
                               THEN /\ data'.docs[k][f].t = "list"
                                    /\ data'.docs[k][f].v =
                                           SelectSeq(data.docs[k][f].v,
                                                     LAMBDA x : x # pull[f])
                               ELSE data'.docs[k][f] = data.docs[k][f]
                        /\ (\A f \in DOMAIN pull :
                                ~ListField(k, f) \/ ~InList(pull[f], data.docs[k][f].v))
                               => data' = data
                 /\ update_one(data', _day_index, q, u).store = data'
            ELSE /\ last'.status = 0
                 /\ data' = data

\* C11: update_one with a $pull of v from list field f on a matching
\* document returns modified-count 1 and removes every occurrence of v from f,
\* the other elements keeping their order; the store is unchanged when v was
\* absent; the same $pull applied again changes nothing; when no document
\* matches, it returns modified-count 0 and changes nothing.
C11_PullRemovesAll == [][PullStep]_vars

\* a $pull of an email on a matching document whose list is left without it,
\* the remaining element in place
C11_Witness ==
    /\ last.op = "update_one"
    /\ last.status = 1
    /\ last.args[2] = Pull("participants", "new@x.edu")
    /\ "Chess Club" \in DOMAIN data.docs
    /\ data.docs["Chess Club"]["participants"].v = <<"daniel@mergington.edu">>

\* the number of elements of lst equal to value
Count(lst, value) == Cardinality({i \in DOMAIN lst : lst[i] = value})

\* C16 as first stated: the two operators are applied in the order in which
\* the update lists them, so that $pull of v before $push of v leaves v in
\* the field exactly once and $push of v before $pull of v leaves v absent.
C16_AppliedAsListed ==
    LET q == last.args[1]
        u == last.args[2]
        doc == find_one(data, _day_index, q)
    IN  (last.op = "update_one" /\ last.status = 1 /\ Len(u.order) = 2) =>
            \A f \in DOMAIN u.get["$push"] :
                Count(doc.v[f].v, u.get["$push"][f]) =
                    IF u.order = <<"$pull", "$push">> THEN 1 ELSE 0

PushPullStep ==
    \A call \in {last'}, after \in {data'} :
        LET q == call.args[1]
            u == call.args[2]
            Matches(k) == _matches_query(WithId(k, data.docs[k]), q)
        IN  (/\ call.op = "update_one"
             /\ Len(u.order) = 2
             /\ \E k \in DOMAIN data.docs : Matches(k)) =>
                /\ call.status = 1
                /\ \E k \in DOMAIN data.docs :
                       /\ Matches(k)
                       /\ \A other \in DOMAIN data.docs \ {k} :
                              after.docs[other] = data.docs[other]
                       /\ \A f \in DOMAIN data.docs[k] \ DOMAIN u.get["$push"] :
                              after.docs[k][f] = data.docs[k][f]
                       /\ \A f \in DOMAIN u.get["$push"] :
                              after.docs[k][f].v =
                                  SelectSeq(IF f \in DOMAIN data.docs[k]
                                            THEN data.docs[k][f].v ELSE <<>>,
                                            LAMBDA x : x # u.get["$push"][f])

\* C16: update_one applies the $push first and the $pull second, whatever the
\* order in which the update lists the two: an update with $push of v and
\* $pull of v on the same list field leaves the field as it was without any
\* occurrence of v, whether it lists $pull first or $push first.
C16_PushThenPull == [][PushPullStep]_vars

\* an update listing $pull before $push of the same email that left the email
\* absent from a roster that still has its other members
C16_Witness ==
    /\ last.op = "update_one"
    /\ last.status = 1
    /\ last.args[2] = PullPush("participants", "new@x.edu")
    /\ "Chess Club" \in DOMAIN data.docs
    /\ Count(Participants(data, "Chess Club"), "new@x.edu") = 0
    /\ Count(Participants(data, "Chess Club"), "michael@mergington.edu") = 1

\* C12: no call of find or update_one on activities_collection ends in an
\* exception: every query and update built from the supported operators is
\* answered with a value.
C12_NeverRaises == last.op \in {"find", "update_one"} => last.exc = ""

(***************************************************************************)
(* get_available_days between signups and unregistrations, on up to        *)
(* MaxActs seed activities (specification SpecDays).                       *)
(***************************************************************************)
GetAvailableDays == get_available_days

NextDays == Signup \/ Unregister \/ GetAvailableDays

SpecDays == InitGet /\ [][NextDays]_vars

Pipelines == { <<>>, <<"$unwind">>, <<"$group", "$sort">> }

\* the days of the schedules of the store's documents
ScheduledDays(store) ==
    {d \in {"Monday", "Tuesday", "Wednesday", "Thursday", "Friday", "Saturday", "Sunday"} :
        \E k \in DOMAIN store.docs : InList(d, DaysOf(store.docs[k]))}

\* what the response call must be when it is one of get_available_days, store
\* being the store it was answered from
DaysResponse(call, store) ==
    call.op = "get_available_days" =>
        /\ Range(call.resp) = ScheduledDays(store)
        /\ \A i, j \in DOMAIN call.resp : i < j => StrLt(call.resp[i], call.resp[j])
        /\ \A p \in Pipelines : aggregate(store, p) = aggregate(store, <<>>)

DaysStep ==
    \A call \in {last'}, before \in {aggregate(data, <<>>)}, after \in {data'} :
        /\ DaysResponse(call, after)
        /\ aggregate(after, <<>>) = before

\* C13: get_available_days returns the day names found in the
\* schedule_details.days of the store's documents, each once, in ascending
\* order of code points, whatever pipeline aggregate is given; no step of
\* signup_for_activity or unregister_from_activity changes that result.
C13_AvailableDays == [][DaysStep]_vars

\* the days listed after a signup: Friday and Monday, each of two activities,
\* listed once and before Thursday
C13_Witness ==
    /\ last.op = "get_available_days"
    /\ "Morning Fitness" \in DOMAIN data.docs
    /\ "new@x.edu" \in Range(Participants(data, "Chess Club"))
    /\ Len(last.resp) >= 4
    /\ last.resp[1] = "Friday"
    /\ last.resp[2] = "Monday"
    /\ last.resp[3] = "Thursday"

(***************************************************************************)
(* Requests handled at the same time (specification SpecConc).  The        *)
(* handlers take no lock: a request runs its handler in steps, and the     *)
(* steps of different requests interleave.  signup_for_activity and        *)
(* unregister_from_activity step through the checks up to the membership   *)
(* test, update_one, and the cache invalidation; get_activities through    *)
(* the cache lookup, the store query, and the cache write.                 *)
(***************************************************************************)
MaxRequests == 2   \* requests handled at the same time

\* the calls the requests make
ConcCalls ==
    { [op |-> "signup_for_activity", args |-> <<"Chess Club", "new@x.edu", S("mchen")>>],
      [op |-> "signup_for_activity", args |-> <<"Chess Club", "other@x.edu", S("mchen")>>],
      [op |-> "unregister_from_activity",
       args |-> <<"Chess Club", "michael@mergington.edu", S("mchen")>>],
      [op |-> "get_activities", args |-> <<NoneV, NoneV, NoneV, 1, DefaultPageSize>>] }

\* a request that has not run yet: pc is its position in the handler, result
\* the local result of get_activities; seen (the participants as the
\* membership test read them), computed_from (the store result was computed
\* from) and overlapped (a step was made while another request was under
\* way) are observers
NewRequest(call) ==
    [op |-> call.op, args |-> call.args,
     pc |-> IF call.op = "get_activities" THEN "lookup" ELSE "check",
     status |-> 0, hit |-> FALSE, seen |-> <<>>, result |-> EmptyDict,
     computed_from |-> EmptyStore, overlapped |-> FALSE]

InitConc ==
    /\ activities_data = SeedStore(NumActs)
    /\ teachers_data = TeacherStore
    /\ data \in {SeedStore(NumActs), EmptyStore}
    /\ _day_index = _build_indexes(activities_data)
    /\ _cache = EmptyDict
    /\ origin = EmptyDict
    /\ last = NoCall
    /\ requests \in {[i \in 1..MaxRequests |-> NewRequest(c[i])] :
                         c \in [1..MaxRequests -> ConcCalls]}

UnderWay(r) == r.pc \notin {"lookup", "check", "done"}

\* request i moves on with the fields of its record changed as in change
Advance(i, change) ==
    requests' = [requests EXCEPT ![i] =
        [f \in DOMAIN @ |->
            IF f \in DOMAIN change THEN change[f]
            ELSE IF f = "overlapped"
                 THEN @[f] \/ \E j \in DOMAIN requests \ {i} : UnderWay(requests[j])
                 ELSE @[f]]]

\* the status the checks of signup_for_activity and unregister_from_activity
\* raise with, 0 when they let the request through
Refusal(op, email, teacher_username, teacher, activity) ==
    IF ~Truthy(teacher_username) THEN 401
    ELSE IF ~Truthy(teacher) THEN 401
    ELSE IF ~Truthy(activity) THEN 404
    ELSE IF op = "signup_for_activity" /\ AlreadySignedUp(email, activity) THEN 400
    ELSE IF op = "unregister_from_activity" /\ NotRegistered(email, activity) THEN 400
    ELSE 0

\* the teacher and the activity looked up, the membership tested
ConcCheck ==
    \E i \in DOMAIN requests :
        LET r == requests[i]
            teacher == find_one(teachers_data, _day_index, "_id" :> r.args[3])
            activity == find_one(data, _day_index, "_id" :> S(r.args[1]))
            refusal == Refusal(r.op, r.args[2], r.args[3], teacher, activity)
        IN  /\ r.pc = "check"
            /\ IF refusal # 0
               THEN Advance(i, [pc |-> "done", status |-> refusal])
               ELSE Advance(i, [pc |-> "update", seen |-> activity.v["participants"].v])
            /\ UNCHANGED <<activities_data, teachers_data, data, _day_index, _cache,
                           origin, last>>

\* mutant: the list read by the membership test, changed and assigned to the
\* document
request_update_WriteBack(store, idx, r) ==
    [store |-> [store EXCEPT !.docs[r.args[1]]["participants"] =
                   L(IF r.op = "signup_for_activity" THEN Append(r.seen, r.args[2])
                     ELSE Without(r.seen, r.args[2]))],
     modified_count |-> 1]

\* the update_one call of the two handlers
request_update(store, idx, r) ==
    update_one(store, idx, "_id" :> S(r.args[1]),
               IF r.op = "signup_for_activity" THEN PushUpdate(r.args[2])
               ELSE PullUpdate(r.args[2]))

\* update_one on the store as it is now; 500 when it reports no modification
ConcUpdate ==
    \E i \in DOMAIN requests :
        LET r == requests[i]
            result == request_update(data, _day_index, r)
        IN  /\ r.pc = "update"
            /\ data' = result.store
            /\ IF result.modified_count = 0
               THEN Advance(i, [pc |-> "done", status |-> 500])
               ELSE Advance(i, [pc |-> "invalidate"])
            /\ UNCHANGED <<activities_data, teachers_data, _day_index, _cache, origin, last>>

\* _invalidate_cache() and the message returned
ConcInvalidate ==
    \E i \in DOMAIN requests :
        /\ requests[i].pc = "invalidate"
        /\ _cache' = _invalidate_cache(_cache)
        /\ origin' = EmptyDict
        /\ Advance(i, [pc |-> "done", status |-> 200])
        /\ UNCHANGED <<activities_data, teachers_data, data, _day_index, last>>

\* the cache key computed and looked up: a hit returns the entry
ConcLookup ==
    \E i \in DOMAIN requests :
        LET r == requests[i]
        IN  /\ r.pc = "lookup"
            /\ IF KeyOf(r.args) \in DOMAIN _cache
               THEN Advance(i, [pc |-> "done", status |-> 200, hit |-> TRUE])
               ELSE Advance(i, [pc |-> "query"])
            /\ UNCHANGED <<activities_data, teachers_data, data, _day_index, _cache,
                           origin, last>>

\* the query built, find called, the page cut and the result formed
ConcQuery ==
    \E i \in DOMAIN requests :
        LET r == requests[i]
        IN  /\ r.pc = "query"
            /\ Advance(i, [pc |-> "write",
                           result |-> ComputeResult(data, _day_index, r.args[1], r.args[2],
                                                    r.args[3], r.args[4], r.args[5]),
                           computed_from |-> data])
            /\ UNCHANGED <<activities_data, teachers_data, data, _day_index, _cache,
                           origin, last>>

\* _cache[cache_key] = result, and the result returned
ConcWrite ==
    \E i \in DOMAIN requests :
        LET r == requests[i]
            cache_key == KeyOf(r.args)
        IN  /\ r.pc = "write"
            /\ _cache' = (cache_key :> r.result) @@ _cache
            /\ origin' = (cache_key :> r.args) @@ origin
            /\ Advance(i, [pc |-> "done", status |-> 200])
            /\ UNCHANGED <<activities_data, teachers_data, data, _day_index, last>>

NextConc ==
    ConcCheck \/ ConcUpdate \/ ConcInvalidate \/ ConcLookup \/ ConcQuery \/ ConcWrite

SpecConc == InitConc /\ [][NextConc]_vars

AllDone == \A i \in DOMAIN requests : requests[i].pc = "done"

\* requests i and j are signups for the same activity of the store with two
\* different emails that were not registered when the requests came in
TwoSignups(i, j) ==
    LET a == requests[i].args[1]
    IN  /\ i # j
        /\ requests[i].op = "signup_for_activity"
        /\ requests[j].op = "signup_for_activity"
        /\ requests[j].args[1] = a
        /\ requests[i].args[2] # requests[j].args[2]
        /\ a \in DOMAIN data.docs
        /\ ~Present(activities_data, a, requests[i].args[2])
        /\ ~Present(activities_data, a, requests[j].args[2])

BothSucceeded(i, j) ==
    /\ AllDone
    /\ requests[i].status = 200
    /\ requests[j].status = 200

\* C17 as first stated: two signups for the same activity with two different
\* new emails, interleaved, both return success and afterwards one of the
\* two emails is missing from the participants list.
C17_UpdateLost ==
    \A i, j \in DOMAIN requests :
        (TwoSignups(i, j) /\ BothSucceeded(i, j)) =>
            \E k \in {i, j} : ~Present(data, requests[k].args[1], requests[k].args[2])

\* C17: in every interleaving of two signups for the same activity with two
\* different new emails (each stepping through its checks, update_one and
\* the cache invalidation), both return success and afterwards both emails
\* are in the participants list: no update is lost.
C17_NoUpdateLost ==
    \A i, j \in DOMAIN requests :
        (TwoSignups(i, j) /\ AllDone) =>
            /\ BothSucceeded(i, j) =>
                   \A k \in {i, j} : Present(data, requests[k].args[1], requests[k].args[2])
            /\ (\A k \in DOMAIN requests \ {i, j} : requests[k].op # "signup_for_activity")
                   => BothSucceeded(i, j)

\* both signups done with success after steps made while the other was under
\* way, the second request's email appended before the first's
C17_Witness ==
    /\ TwoSignups(1, 2)
    /\ BothSucceeded(1, 2)
    /\ requests[1].overlapped /\ requests[2].overlapped
    /\ requests[1].seen = requests[2].seen
    /\ LET p == Participants(data, "Chess Club")
       IN  p[Len(p)] = requests[1].args[2] /\ p[Len(p) - 1] = requests[2].args[2]

\* C18: when two signups for the same activity and the same email are
\* interleaved, at most one of them returns success, and after both are done
\* the email occurs at most once in the participants list.
C18_UniqueUnderInterleaving ==
    \A i, j \in DOMAIN requests :
        (/\ AllDone
         /\ i # j
         /\ requests[i].op = "signup_for_activity"
         /\ requests[j].op = "signup_for_activity"
         /\ requests[i].args = requests[j].args
         /\ requests[i].args[1] \in DOMAIN data.docs) =>
            /\ ~(requests[i].status = 200 /\ requests[j].status = 200)
            /\ Count(Participants(data, requests[i].args[1]), requests[i].args[2]) <= 1

\* entry of the cache under key serialises to what get_activities computes
\* from the store as it is now for the request that wrote the entry
EntryIsCurrent(key) ==
    Render(_cache[key], data) =
        ComputeResult(data, _day_index, origin[key][1], origin[key][2], origin[key][3],
                      origin[key][4], origin[key][5])

\* no entry of the cache is a result that a request computed from a store
\* other than the store as it is now
NoEarlierResult ==
    \A i \in DOMAIN requests :
        LET r == requests[i]
        IN  (/\ r.op = "get_activities"
             /\ r.pc = "done"
             /\ ~r.hit
             /\ KeyOf(r.args) \in DOMAIN _cache
             /\ _cache[KeyOf(r.args)] = r.result) => r.computed_from = data

\* C19 as first stated: once the interleaved get_activities and signup or
\* unregister requests are done, every cache entry has the payload that
\* recomputing its query on the current store gives, and no result computed
\* before the mutation is left in the cache after the invalidation.
C19_NoEarlierResultCached ==
    AllDone => /\ \A key \in DOMAIN _cache : EntryIsCurrent(key)
               /\ NoEarlierResult

\* C19: once the interleaved get_activities (cache lookup, store query, cache
\* write) and signup or unregister (store update, cache clear) requests are
\* done, every cache entry has the payload that recomputing its query on the
\* current store gives.
C19_CachedPayloadCurrent ==
    AllDone => \A key \in DOMAIN _cache : EntryIsCurrent(key)

\* a result computed before a signup changed the store and written to the
\* cache after the signup had cleared it
C19_Witness ==
    /\ AllDone
    /\ \E i, j \in DOMAIN requests :
           /\ requests[i].op = "get_activities"
           /\ ~requests[i].hit
           /\ KeyOf(requests[i].args) \in DOMAIN _cache
           /\ requests[i].computed_from # data
           /\ requests[j].op = "signup_for_activity"
           /\ requests[j].status = 200
           /\ requests[j].overlapped

(***************************************************************************)
(* Start-up (specification SpecStartup): the state database_old.py leaves  *)
(* when it is imported, then init_database and the handlers called one     *)
(* after another.  activities_collection is built on the dict that          *)
(* activities_data names at import (line 176); init_database assigns a new *)
(* dict to the global activities_data and fills teachers_data in place.    *)
(***************************************************************************)
InitImport ==
    /\ activities_data = EmptyStore
    /\ teachers_data = EmptyStore
    /\ data = EmptyStore
    /\ _day_index = EmptyDict
    /\ _cache = EmptyDict
    /\ origin = EmptyDict
    /\ last = NoCall
    /\ requests = <<>>

\* init_database: the global activities_data rebound to a copy of the seed
\* when the dict it names is empty, teachers_data filled when empty, the
\* indexes rebuilt from the dict activities_data names
init_database ==
    /\ activities_data' = IF activities_data.order = <<>> THEN SeedStore(NumActs)
                          ELSE activities_data
    /\ teachers_data' = IF teachers_data.order = <<>> THEN TeacherStore
                        ELSE teachers_data
    /\ _day_index' = _build_indexes(activities_data')
    /\ last' = [op |-> "init_database", args |-> <<>>, status |-> 0, hit |-> FALSE,
                exc |-> "", resp |-> EmptyDict]
    /\ UNCHANGED <<requests, data, _cache, origin>>

InitDatabase == init_database

NextStartup == InitDatabase \/ GetActivities \/ Signup \/ Unregister

SpecStartup == InitImport /\ [][NextStartup]_vars

\* the names of the documents of store, in store order, whose
\* schedule_details.days holds day
NamesOn(store, day) ==
    SelectSeq(store.order, LAMBDA k : InList(day, DaysOf(store.docs[k])))

\* C21: after init_database the collection the handlers query holds exactly
\* the seed activities, every name listed in _day_index is a key of the
\* collection, and for every day _day_index[day] is the list of the names of
\* the collection's documents whose schedule_details.days holds that day.
C21_IndexAgreesWithCollection ==
    last.op = "init_database" =>
        /\ DOMAIN data.docs = DOMAIN SeedStore(NumActs).docs
        /\ \A day \in DOMAIN _day_index :
               \A i \in DOMAIN _day_index[day] : _day_index[day][i] \in DOMAIN data.docs
        /\ \A day \in {"Monday", "Tuesday", "Wednesday", "Thursday", "Friday",
                        "Saturday", "Sunday"} :
               NamesOn(data, day) =
                   IF day \in DOMAIN _day_index THEN _day_index[day] ELSE <<>>
====
